---- MODULE Spec2Model ----
(***************************************************************************)
(* SnapMap: the App component (collection, local-storage persistence,      *)
(* selection, responsive layout), the AddPlaceModal component (file pick,  *)
(* preview, analysis), the analyzeImage service and what RestaurantList    *)
(* and MapVisualization show of the collection.                            *)
(*                                                                         *)
(* JavaScript values are modelled as follows.  null is Null.  A string     *)
(* that the code splits is Str(parts), parts being its comma-separated     *)
(* pieces.  An object is a TLA+ record, an array a sequence.  Where the    *)
(* code stores a value whose type it does not control (the parsed blob),   *)
(* the value is wrapped with its type: [type |-> "array", value |-> ...].  *)
(***************************************************************************)
EXTENDS Integers, Sequences, FiniteSets, TLC

\* ------------------------------------------------------------------ bounds

\* Number of records the analyses may add to the collection.
MaxRecords == 1

\* Number of FileReader reads that may be pending at once.
MaxReaders == 1

\* ------------------------------------------------------------- JS values

Null == [type |-> "null"]

Str(parts) == [type |-> "string", parts |-> parts]

STORAGE_KEY == "gourmet_snap_data"

\* A second key of the same origin's storage, which the app does not own.
OtherKey == "other_key"

StorageKeys == {STORAGE_KEY, OtherKey}

\* The fields of a Restaurant, in the order in which a new record's
\* properties are created: id, then the spread analysis result, then
\* originalImage and createdAt.
RestaurantKeys ==
    <<"id", "name", "country", "city", "district", "description",
      "coordinates", "tags", "originalImage", "createdAt">>

CoordinateKeys == <<"lat", "lng">>

Range(s) == {s[i] : i \in 1..Len(s)}

IsRestaurant(r) == DOMAIN r = Range(RestaurantKeys)

\* ------------------------------------------------------------------ JSON
\* A JSON text is modelled by its empty/ill-formed/well-formed status and,
\* when well-formed, by the document it spells: objects are member lists
\* in key order, arrays element lists.

EmptyText == [kind |-> "empty"]

GarbageText == [kind |-> "garbage"]

JsonText(doc) == [kind |-> "json", doc |-> doc]

DocNull == [j |-> "null"]

DocString(s) == [j |-> "string", s |-> s]

DocNumber(n) == [j |-> "number", n |-> n]

DocArray(elems) == [j |-> "array", elems |-> elems]

DocObject(members) == [j |-> "object", members |-> members]

StringifyStrings(ss) == DocArray([i \in 1..Len(ss) |-> DocString(ss[i])])

StringifyCoordinates(c) ==
    DocObject([i \in 1..Len(CoordinateKeys) |->
                 <<CoordinateKeys[i], DocNumber(c[CoordinateKeys[i]])>>])

StringifyField(k, v) ==
    CASE k = "coordinates" -> StringifyCoordinates(v)
      [] k = "tags"        -> StringifyStrings(v)
      [] k = "createdAt"   -> DocNumber(v)
      [] OTHER             -> DocString(v)

\* JSON.stringify of one Restaurant: its own properties in creation order.
StringifyRestaurant(r) ==
    DocObject([i \in 1..Len(RestaurantKeys) |->
                 <<RestaurantKeys[i], StringifyField(RestaurantKeys[i], r[RestaurantKeys[i]])>>])

\* JSON.stringify(restaurants) for an array of Restaurants.
JSONstringify(rs) ==
    JsonText(DocArray([i \in 1..Len(rs) |-> StringifyRestaurant(rs[i])]))

RECURSIVE ParseValue(_)
\* The value a document parses to (arrays to sequences, objects to records,
\* a repeated key keeping its last member).
ParseValue(doc) ==
    CASE doc.j = "string" -> doc.s
      [] doc.j = "number" -> doc.n
      [] doc.j = "null"   -> Null
      [] doc.j = "array"  -> [i \in 1..Len(doc.elems) |-> ParseValue(doc.elems[i])]
      [] doc.j = "object" ->
           LET ms   == doc.members
               keys == {ms[i][1] : i \in 1..Len(ms)}
               last(k) == CHOOSE i \in 1..Len(ms) :
                            /\ ms[i][1] = k
                            /\ \A n \in 1..Len(ms) : ms[n][1] = k => n <= i
           IN  [k \in keys |-> ParseValue(ms[last(k)][2])]

\* JSON.parse: throws on text that is not JSON, else the value with its type.
JSONparse(text) ==
    IF text.kind # "json"
    THEN [threw |-> TRUE]
    ELSE [threw |-> FALSE,
          result |-> IF text.doc.j = "null"
                     THEN Null
                     ELSE [type |-> text.doc.j, value |-> ParseValue(text.doc)]]

\* ------------------------------------------------------------ input sets

\* Screenshots the user may pick.
Files == {"shot1", "shot2"}

FileOf(f) == [type |-> "file", name |-> f]

\* FileReader.readAsDataURL(file): "data:<mime>;base64,<payload>".
DataUrl(f) == Str(<<"data:image/png;base64", f>>)

\* Objects the endpoint may answer with; all satisfy restaurantSchema.
Answers ==
    { [name |-> "Gogi", country |-> "South Korea", city |-> "Seoul",
       district |-> "Gangnam-gu", description |-> "bbq",
       lat |-> 37, lng |-> 127, tags |-> <<"bbq", "pork">>],
      [name |-> "Sushi", country |-> "Japan", city |-> "Tokyo",
       district |-> "Shinjuku", description |-> "omakase",
       lat |-> 35, lng |-> 139, tags |-> <<"sushi">>] }

AnswerKeys == <<"name", "country", "city", "district", "description", "lat", "lng", "tags">>

\* The JSON text of an answer object, as the endpoint sends it.
AnswerText(a) ==
    JsonText(DocObject([i \in 1..Len(AnswerKeys) |->
        <<AnswerKeys[i],
          CASE AnswerKeys[i] \in {"lat", "lng"} -> DocNumber(a[AnswerKeys[i]])
            [] AnswerKeys[i] = "tags"           -> StringifyStrings(a.tags)
            [] OTHER                            -> DocString(a[AnswerKeys[i]])>>]))

\* What a generateContent call may come back with: a rejection (with any
\* message, the empty one included), or a response whose text is missing,
\* not JSON, the JSON null, or an answer object.
Responses ==
    [kind : {"rejected"}, message : {"", "503 overloaded"}]
      \cup [kind : {"response"},
            text : {EmptyText, GarbageText, JsonText(DocNull)}
                     \cup {AnswerText(a) : a \in Answers}]

\* Records an earlier session may have stored.
Stored1 ==
    [id |-> "s1", name |-> "Dwaeji", country |-> "South Korea", city |-> "Busan",
     district |-> "Haeundae", description |-> "gukbap",
     coordinates |-> [lat |-> 35, lng |-> 129], tags |-> <<"soup">>,
     originalImage |-> DataUrl("shot1"), createdAt |-> 0]

Stored2 ==
    [id |-> "s2", name |-> "Naeng", country |-> "South Korea", city |-> "Seoul",
     district |-> "Jung-gu", description |-> "noodles",
     coordinates |-> [lat |-> 37, lng |-> 126], tags |-> <<"cold", "noodle">>,
     originalImage |-> DataUrl("shot2"), createdAt |-> 0]

\* Lists of records whose serialization may be in storage at mount.
StoredLists == {<<>>, <<Stored1>>, <<Stored2, Stored1>>}

\* Items that may be in storage under STORAGE_KEY at mount: none, the
\* empty string, text that is not JSON, JSON that is no array (null, an
\* object), an array of objects that are no Restaurants, and serialized
\* lists of Restaurants.
NoItem == [present |-> FALSE]

Item(text) == [present |-> TRUE, text |-> text]

ForeignObjectDoc == DocObject(<<<<"version", DocString("2")>>>>)

MountItems ==
    {NoItem, Item(EmptyText), Item(GarbageText), Item(JsonText(DocNull)),
     Item(JsonText(ForeignObjectDoc)),
     Item(JsonText(DocArray(<<ForeignObjectDoc>>)))}
      \cup {Item(JSONstringify(rs)) : rs \in StoredLists}

\* ------------------------------------------------------------------ state

VARIABLES
    localStorage,        \* key -> item: the origin's local storage
    innerWidth,          \* "narrow" (< 768) or "wide": window.innerWidth
    restaurants,         \* App: committed state, a typed value
    updates,             \* App: setRestaurants calls not yet rendered
    isModalOpen,         \* App
    selectedRestaurant,  \* App
    viewMode,            \* App
    mobileTab,           \* App
    file,                \* AddPlaceModal
    preview,             \* AddPlaceModal
    isAnalyzing,         \* AddPlaceModal
    error,               \* AddPlaceModal
    readers,             \* FileReaders that have not fired onloadend yet
    inflight,            \* handleAnalyze calls awaiting analyzeImage
    dimensions,          \* MapVisualization: committed state
    pendingDimensions,   \* MapVisualization: setDimensions not yet rendered
    pins,                \* the .place-group elements of the svg, with data
    effects,             \* effects of the last commit still to run
    crashed,             \* a render threw and React unmounted the tree
    mountItem,           \* history: the item under STORAGE_KEY at mount,
                         \* until the first event after the mount
    log,                 \* history: the analyses that succeeded
    abandoned            \* history: for each call in flight, whether the
                         \* header button has closed the modal since

vars ==
    <<localStorage, innerWidth, restaurants, updates, isModalOpen,
      selectedRestaurant, viewMode, mobileTab, file, preview, isAnalyzing,
      error, readers, inflight, dimensions, pendingDimensions, pins,
      effects, crashed, mountItem, log, abandoned>>

appVars == <<isModalOpen, selectedRestaurant, viewMode, mobileTab>>

modalVars == <<file, preview, isAnalyzing, error>>

histVars == <<mountItem, log, abandoned>>

NoDimensions == [width |-> -1]

Array(items) == [type |-> "array", value |-> items]

\* The state after the first render has been committed: every useState
\* holds its initial value and the effects of the mount are still to run,
\* children's before the parent's, each component's in source order.
Init ==
    /\ \E item \in MountItems :
         /\ localStorage = [k \in StorageKeys |-> IF k = STORAGE_KEY THEN item ELSE NoItem]
         /\ mountItem = item
    /\ innerWidth \in {"narrow", "wide"}
    /\ restaurants = Array(<<>>)
    /\ updates = <<>>
    /\ isModalOpen = FALSE
    /\ selectedRestaurant = Null
    /\ viewMode = "split"
    /\ mobileTab = "list"
    /\ file = Null
    /\ preview = Null
    /\ isAnalyzing = FALSE
    /\ error = Null
    /\ readers = <<>>
    /\ inflight = <<>>
    /\ dimensions = [width |-> 0]
    /\ pendingDimensions = NoDimensions
    /\ pins = <<>>
    /\ effects = <<"mapResize", "mapDraw", "load", "save", "resize">>
    /\ crashed = FALSE
    /\ log = <<>>
    /\ abandoned = <<>>

\* ----------------------------------------------------------------- layout

\* The map area's class is "block" in split view and on the map tab, and
\* "hidden" (display: none) otherwise.
MapAreaVisible == viewMode = "split" \/ mobileTab = "map"

SidebarListVisible == viewMode = "split"

MobileListVisible == viewMode # "split" /\ mobileTab = "list"

\* The bottom navigation is md:hidden: shown below 768 px.
BottomNavVisible == innerWidth = "narrow"

\* containerRef.current.offsetWidth: 0 inside a display: none ancestor.
OffsetWidth == IF MapAreaVisible THEN 1 ELSE 0

\* ------------------------------------------------------------- rendering

\* The .place-group elements the draw effect appends: one per datum of
\* .data(restaurants), in order, placed at the projection of its [lng, lat].
PlaceGroups(rs) ==
    [i \in 1..Len(rs) |->
       [datum |-> rs[i], at |-> <<rs[i].coordinates.lng, rs[i].coordinates.lat>>]]

\* MapVisualization's draw effect: nothing without a measured width, else
\* the svg is cleared and drawn again from the restaurants of this render.
DrawnPins(dims, rs, old) ==
    IF dims.width = 0 THEN old ELSE PlaceGroups(rs)

\* One queued setRestaurants call applied to the state so far: a value, or
\* prev => [restaurant, ...prev], which throws unless prev is iterable.
ApplyUpdate(cur, u) ==
    CASE u.op = "set"          -> u.value
      [] cur.type = "array"    -> Array(<<u.restaurant>> \o cur.value)
      [] OTHER                 -> [type |-> "TypeError"]

RECURSIVE ApplyUpdates(_, _)
ApplyUpdates(cur, us) ==
    IF us = <<>> THEN cur ELSE ApplyUpdates(ApplyUpdate(cur, Head(us)), Tail(us))

\* Whether rendering the tree with this restaurants value returns:
\* RestaurantList calls restaurants.forEach and, per element, r.tags.slice.
RenderReturns(v) ==
    /\ v.type = "array"
    /\ \A i \in 1..Len(v.value) : "tags" \in DOMAIN v.value[i]

\* RestaurantList's grouped: country -> city -> records, built by the
\* forEach; object keys keep their insertion order, so the groups are kept
\* as lists in the order Object.entries yields them.
GroupPush(g, r) ==
    LET g1 == IF \E i \in 1..Len(g) : g[i].country = r.country
              THEN g ELSE Append(g, [country |-> r.country, cities |-> <<>>])
        ci == CHOOSE i \in 1..Len(g1) : g1[i].country = r.country
        cs == g1[ci].cities
        cs1 == IF \E j \in 1..Len(cs) : cs[j].city = r.city
               THEN cs ELSE Append(cs, [city |-> r.city, spots |-> <<>>])
        yi == CHOOSE j \in 1..Len(cs1) : cs1[j].city = r.city
    IN  [g1 EXCEPT ![ci].cities = [cs1 EXCEPT ![yi].spots = Append(@, r)]]

RECURSIVE GroupInto(_, _)
GroupInto(g, rs) ==
    IF rs = <<>> THEN g ELSE GroupInto(GroupPush(g, Head(rs)), Tail(rs))

Grouped(rs) == GroupInto(<<>>, rs)

\* RestaurantList returns the "No saved spots yet." block instead of groups.
EmptyStateShown(rs) == Len(rs) = 0

\* The save effect with an empty dependency list: it runs on mount only.
EffectsAfterCommitMountOnly(restaurantsChanged) == <<"mapDraw">>

\* The effects React runs after a commit: the map's draw effect (one of
\* its dependencies changed) and, when restaurants changed, the save effect.
EffectsAfterCommit(restaurantsChanged) ==
    IF restaurantsChanged THEN <<"mapDraw", "save">> ELSE <<"mapDraw">>

Idle ==
    /\ ~crashed
    /\ effects = <<>>
    /\ updates = <<>>
    /\ pendingDimensions = NoDimensions

\* The history of the mount is kept until the first event is handled.
Forgotten == [present |-> FALSE, forgotten |-> TRUE]

EventHandled == mountItem' = Forgotten

\* ---------------------------------------------------------------- effects

EffectDue(name) == ~crashed /\ effects # <<>> /\ Head(effects) = name

\* MapVisualization, "Handle resize" effect at mount: handleResize().
MapResizeEffect ==
    /\ EffectDue("mapResize")
    /\ pendingDimensions' = [width |-> OffsetWidth]
    /\ effects' = Tail(effects)
    /\ UNCHANGED <<localStorage, innerWidth, restaurants, updates, appVars,
                   modalVars, readers, inflight, dimensions, pins, crashed,
                   histVars>>

\* MapVisualization, draw effect, with the values of the committed render.
MapDrawEffect ==
    /\ EffectDue("mapDraw")
    /\ pins' = DrawnPins(dimensions, restaurants.value, pins)
    /\ effects' = Tail(effects)
    /\ UNCHANGED <<localStorage, innerWidth, restaurants, updates, appVars,
                   modalVars, readers, inflight, dimensions,
                   pendingDimensions, crashed, histVars>>

\* App, "Load data on mount".
LoadEffect ==
    /\ EffectDue("load")
    /\ LET saved  == localStorage[STORAGE_KEY]
           truthy == saved.present /\ saved.text.kind # "empty"
           parsed == JSONparse(saved.text)
       IN  updates' = IF truthy /\ ~parsed.threw
                      THEN Append(updates, [op |-> "set", value |-> parsed.result])
                      ELSE updates
    /\ effects' = Tail(effects)
    /\ UNCHANGED <<localStorage, innerWidth, restaurants, appVars, modalVars,
                   readers, inflight, dimensions, pendingDimensions, pins,
                   crashed, histVars>>

\* The save effect writing under a key other than the one the load reads.
SaveEffectOtherKey ==
    /\ EffectDue("save")
    /\ localStorage' =
         [localStorage EXCEPT ![OtherKey] = Item(JSONstringify(restaurants.value))]
    /\ effects' = Tail(effects)
    /\ UNCHANGED <<innerWidth, restaurants, updates, appVars, modalVars,
                   readers, inflight, dimensions, pendingDimensions, pins,
                   crashed, histVars>>

\* App, "Save data on change", with the restaurants of the committed render.
SaveEffect ==
    /\ EffectDue("save")
    /\ localStorage' =
         [localStorage EXCEPT ![STORAGE_KEY] = Item(JSONstringify(restaurants.value))]
    /\ effects' = Tail(effects)
    /\ UNCHANGED <<innerWidth, restaurants, updates, appVars, modalVars,
                   readers, inflight, dimensions, pendingDimensions, pins,
                   crashed, histVars>>

\* App, responsive viewMode: handleResize().
ViewModeFor(w) == IF w = "narrow" THEN "list" ELSE "split"

AppResizeEffect ==
    /\ EffectDue("resize")
    /\ viewMode' = ViewModeFor(innerWidth)
    /\ effects' = Tail(effects)
    /\ UNCHANGED <<localStorage, innerWidth, restaurants, updates, isModalOpen,
                   selectedRestaurant, mobileTab, modalVars, readers, inflight,
                   dimensions, pendingDimensions, pins, crashed, histVars>>

\* React renders again once the effects have run and state updates are
\* queued; a render that throws unmounts the tree, since nothing catches it.
Render ==
    /\ ~crashed
    /\ effects = <<>>
    /\ updates # <<>> \/ pendingDimensions # NoDimensions
    /\ LET next == ApplyUpdates(restaurants, updates)
       IN  /\ restaurants' = next
           /\ crashed' = ~RenderReturns(next)
           /\ effects' = IF ~RenderReturns(next) THEN <<>>
                         ELSE EffectsAfterCommit(updates # <<>>)
    /\ updates' = <<>>
    /\ dimensions' = IF pendingDimensions # NoDimensions
                     THEN pendingDimensions ELSE dimensions
    /\ pendingDimensions' = NoDimensions
    /\ UNCHANGED <<localStorage, innerWidth, appVars, modalVars, readers,
                   inflight, pins, histVars>>

\* ---------------------------------------------------------- analyzeImage

UniformMessage == "Failed to analyze image. Please try a clearer screenshot."

NoDataMessage == "No data returned from Gemini"

FallbackMessage == "Failed to analyze image"

Threw(message) == [threw |-> TRUE, message |-> message]

\* The try block of analyzeImage, given what generateContent came back with.
AnalyzeImageTry(response) ==
    IF response.kind = "rejected" THEN Threw(response.message)
    ELSE IF response.text.kind = "empty" THEN Threw(NoDataMessage)
    ELSE LET parsed == JSONparse(response.text)
         IN  IF parsed.threw THEN Threw("Unexpected token")
             ELSE IF parsed.result = Null
                  THEN Threw("Cannot read properties of null")
                  ELSE LET data == parsed.result.value
                       IN  [threw |-> FALSE,
                            value |-> [name |-> data.name,
                                       country |-> data.country,
                                       city |-> data.city,
                                       district |-> data.district,
                                       description |-> data.description,
                                       coordinates |-> [lat |-> data.lat, lng |-> data.lng],
                                       tags |-> data.tags]]

\* analyzeImage with a catch block that rethrows what it caught.
AnalyzeImageRethrow(response) == AnalyzeImageTry(response)

\* analyzeImage: whatever the try block throws is replaced by one error.
AnalyzeImage(response) ==
    LET outcome == AnalyzeImageTry(response)
    IN  IF outcome.threw THEN Threw(UniformMessage) ELSE outcome

\* ---------------------------------------------------------- AddPlaceModal

\* setError reading a property the error does not have.
FailureErrorUndefined(message) == Null

\* setError(err.message || "Failed to analyze image")
FailureError(message) ==
    Str(<<IF message # "" THEN message ELSE FallbackMessage>>)

\* uuidv4(): a fresh identifier per call, here the call's number.
Uuid(n) == "n" \o ToString(n)

\* The record built from the preview in state when the analysis returns,
\* not from the one the running handler closed over.
NewRestaurantLatestPreview(uuid, result, shown, now) ==
    [id |-> uuid, name |-> result.name, country |-> result.country,
     city |-> result.city, district |-> result.district,
     description |-> result.description, coordinates |-> result.coordinates,
     tags |-> result.tags, originalImage |-> preview, createdAt |-> now]

\* { id: uuidv4(), ...result, originalImage: preview, createdAt: Date.now() }
\* with the preview of the render whose handleAnalyze is running.  Date.now()
\* is a logical clock: the number of the record being created.
NewRestaurant(uuid, result, shown, now) ==
    [id |-> uuid, name |-> result.name, country |-> result.country,
     city |-> result.city, district |-> result.district,
     description |-> result.description, coordinates |-> result.coordinates,
     tags |-> result.tags, originalImage |-> shown, createdAt |-> now]

\* The modal renders (isOpen) and shows the upload prompt (!preview).
UploadPromptShown == isModalOpen /\ preview = Null

\* The modal shows the preview with its two buttons.
PreviewShown == isModalOpen /\ preview # Null

\* The two buttons without their disabled attribute.
ButtonsNeverDisabled == PreviewShown

\* Retake and Extract Info are disabled={isAnalyzing}.
ButtonsEnabled == PreviewShown /\ ~isAnalyzing

\* Header button "Add Spot"; the open modal's overlay covers the page.
OpenModal ==
    /\ Idle
    /\ EventHandled
    /\ ~isModalOpen
    /\ isModalOpen' = TRUE
    /\ UNCHANGED <<localStorage, innerWidth, restaurants, updates,
                   selectedRestaurant, viewMode, mobileTab, modalVars, readers,
                   inflight, dimensions, pendingDimensions, pins, effects,
                   crashed, log, abandoned>>

\* handleFileChange with a chosen file: the read is started.
HandleFileChange(f) ==
    /\ Idle
    /\ EventHandled
    /\ UploadPromptShown
    /\ Len(readers) < MaxReaders
    /\ file' = FileOf(f)
    /\ error' = Null
    /\ readers' = Append(readers, f)
    /\ UNCHANGED <<localStorage, innerWidth, restaurants, updates, appVars,
                   preview, isAnalyzing, inflight, dimensions,
                   pendingDimensions, pins, effects, crashed, log, abandoned>>

RemoveAt(s, i) == SubSeq(s, 1, i - 1) \o SubSeq(s, i + 1, Len(s))

\* reader.onloadend of any pending read: the result is the data URL, or
\* null when the read failed.
ReaderLoadEnd(i, ok) ==
    /\ Idle
    /\ EventHandled
    /\ i \in 1..Len(readers)
    /\ preview' = IF ok THEN DataUrl(readers[i]) ELSE Null
    /\ readers' = RemoveAt(readers, i)
    /\ UNCHANGED <<localStorage, innerWidth, restaurants, updates, appVars,
                   file, isAnalyzing, error, inflight, dimensions,
                   pendingDimensions, pins, effects, crashed, log, abandoned>>

\* The Retake button.
Retake ==
    /\ Idle
    /\ EventHandled
    /\ ButtonsEnabled
    /\ preview' = Null
    /\ file' = Null
    /\ UNCHANGED <<localStorage, innerWidth, restaurants, updates, appVars,
                   isAnalyzing, error, readers, inflight, dimensions,
                   pendingDimensions, pins, effects, crashed, log, abandoned>>

\* analyzeImage up to its await: one generateContent request, carrying
\* the image payload.
AnalyzeImageCall(base64Image) == [data |-> base64Image, sent |-> 1]

\* handleAnalyze up to its await: analyzeImage is called with the payload
\* of the preview shown.  The pending call keeps the handler's closure.
HandleAnalyze ==
    /\ Idle
    /\ EventHandled
    /\ ButtonsEnabled
    /\ Len(log) < MaxRecords
    /\ preview # Null
    /\ isAnalyzing' = TRUE
    /\ error' = Null
    /\ inflight' = Append(inflight,
         [shown |-> preview, request |-> AnalyzeImageCall(preview.parts[2])])
    /\ UNCHANGED <<localStorage, innerWidth, restaurants, updates, appVars,
                   file, preview, readers, dimensions, pendingDimensions, pins,
                   effects, crashed, log>>
    /\ abandoned' = Append(abandoned, FALSE)

\* handleAnalyze with a catch block that sends the request again.
HandleAnalyzeResumeRetry(n, response) ==
    /\ Idle
    /\ n \in 1..Len(inflight)
    /\ LET a == inflight[n]
           outcome == AnalyzeImage(response)
           newRestaurant == NewRestaurant(Uuid(Len(log) + 1), outcome.value,
                                          a.shown, Len(log) + 1)
       IN  IF ~outcome.threw
           THEN /\ inflight' = RemoveAt(inflight, n)
                /\ updates' = Append(updates, [op |-> "prepend", restaurant |-> newRestaurant])
                /\ selectedRestaurant' = newRestaurant
                /\ mobileTab' = "map"
                /\ file' = Null
                /\ preview' = Null
                /\ error' = Null
                /\ isModalOpen' = FALSE
                /\ isAnalyzing' = FALSE
                /\ log' = Append(log, [shown |-> a.shown, response |-> response])
           ELSE /\ a.request.sent = 1
                /\ inflight' = [inflight EXCEPT ![n].request.sent = 2]
                /\ UNCHANGED <<updates, selectedRestaurant, mobileTab, file,
                               preview, isModalOpen, log, error, isAnalyzing>>
    /\ UNCHANGED <<localStorage, innerWidth, restaurants, viewMode, readers,
                   dimensions, pendingDimensions, pins, effects, crashed,
                   mountItem>>
    /\ abandoned' = IF ~AnalyzeImage(response).threw
                    THEN RemoveAt(abandoned, n) ELSE abandoned

\* handleAnalyze after its await, for the answer the request got: on
\* success onSave(newRestaurant) (handleSaveRestaurant) and handleClose();
\* on failure setError; in both cases setIsAnalyzing(false).
HandleAnalyzeResume(n, response) ==
    /\ Idle
    /\ n \in 1..Len(inflight)
    /\ inflight' = RemoveAt(inflight, n)
    /\ LET a == inflight[n]
           outcome == AnalyzeImage(response)
           newRestaurant == NewRestaurant(Uuid(Len(log) + 1), outcome.value,
                                          a.shown, Len(log) + 1)
       IN  IF ~outcome.threw
           THEN /\ updates' = Append(updates, [op |-> "prepend", restaurant |-> newRestaurant])
                /\ selectedRestaurant' = newRestaurant
                /\ mobileTab' = "map"
                /\ file' = Null
                /\ preview' = Null
                /\ error' = Null
                /\ isModalOpen' = FALSE
                /\ log' = Append(log, [shown |-> a.shown, response |-> response])
           ELSE /\ error' = FailureError(outcome.message)
                /\ UNCHANGED <<updates, selectedRestaurant, mobileTab, file,
                               preview, isModalOpen, log>>
    /\ isAnalyzing' = FALSE
    /\ UNCHANGED <<localStorage, innerWidth, restaurants, viewMode, readers,
                   dimensions, pendingDimensions, pins, effects, crashed,
                   mountItem>>
    /\ abandoned' = RemoveAt(abandoned, n)

\* handleClose from the modal's header button.
HandleClose ==
    /\ Idle
    /\ EventHandled
    /\ isModalOpen
    /\ file' = Null
    /\ preview' = Null
    /\ error' = Null
    /\ isModalOpen' = FALSE
    /\ UNCHANGED <<localStorage, innerWidth, restaurants, updates,
                   selectedRestaurant, viewMode, mobileTab, isAnalyzing,
                   readers, inflight, dimensions, pendingDimensions, pins,
                   effects, crashed, log>>
    /\ abandoned' = [n \in 1..Len(abandoned) |-> TRUE]

\* -------------------------------------------------------------------- App

\* A card of the sidebar list (onSelect = setSelectedRestaurant) or of the
\* mobile list (which also switches to the map tab).  The map's draw effect
\* runs again, selectedRestaurant being one of its dependencies.
SelectFromList(i) ==
    /\ Idle
    /\ EventHandled
    /\ ~isModalOpen
    /\ SidebarListVisible \/ MobileListVisible
    /\ i \in 1..Len(restaurants.value)
    /\ selectedRestaurant' = restaurants.value[i]
    /\ mobileTab' = IF MobileListVisible THEN "map" ELSE mobileTab
    /\ pins' = DrawnPins(dimensions, restaurants.value, pins)
    /\ UNCHANGED <<localStorage, innerWidth, restaurants, updates, isModalOpen,
                   viewMode, modalVars, readers, inflight, dimensions,
                   pendingDimensions, effects, crashed, log, abandoned>>

\* A click on a pin: onSelectRestaurant(d) with the pin's datum.
SelectFromMap(i) ==
    /\ Idle
    /\ EventHandled
    /\ ~isModalOpen
    /\ MapAreaVisible
    /\ i \in 1..Len(pins)
    /\ selectedRestaurant' = pins[i].datum
    /\ pins' = DrawnPins(dimensions, restaurants.value, pins)
    /\ UNCHANGED <<localStorage, innerWidth, restaurants, updates, isModalOpen,
                   viewMode, mobileTab, modalVars, readers, inflight,
                   dimensions, pendingDimensions, effects, crashed, log, abandoned>>

\* The close button of the selected card overlay.
Deselect ==
    /\ Idle
    /\ EventHandled
    /\ ~isModalOpen
    /\ MapAreaVisible
    /\ selectedRestaurant # Null
    /\ selectedRestaurant' = Null
    /\ pins' = DrawnPins(dimensions, restaurants.value, pins)
    /\ UNCHANGED <<localStorage, innerWidth, restaurants, updates, isModalOpen,
                   viewMode, mobileTab, modalVars, readers, inflight,
                   dimensions, pendingDimensions, effects, crashed, log, abandoned>>

\* The List and Map buttons of the bottom navigation.
SetMobileTab(tab) ==
    /\ Idle
    /\ EventHandled
    /\ ~isModalOpen
    /\ BottomNavVisible
    /\ mobileTab # tab
    /\ mobileTab' = tab
    /\ UNCHANGED <<localStorage, innerWidth, restaurants, updates, isModalOpen,
                   selectedRestaurant, viewMode, modalVars, readers, inflight,
                   dimensions, pendingDimensions, pins, effects, crashed,
                   log, abandoned>>

\* A window resize event: MapVisualization's listener measures the container
\* as it is laid out now, App's listener sets the viewMode; after the render
\* the draw effect runs with the new dimensions.
WindowResize(w) ==
    /\ Idle
    /\ EventHandled
    /\ innerWidth' = w
    /\ dimensions' = [width |-> OffsetWidth]
    /\ viewMode' = ViewModeFor(w)
    /\ pins' = DrawnPins(dimensions', restaurants.value, pins)
    /\ UNCHANGED <<localStorage, restaurants, updates, isModalOpen,
                   selectedRestaurant, mobileTab, modalVars, readers, inflight,
                   pendingDimensions, effects, crashed, log, abandoned>>

\* ------------------------------------------------------------------- spec

\* No list is longer than the longest stored list plus the analyses.
MaxCards == 2 + MaxRecords

Next ==
    \/ MapResizeEffect
    \/ MapDrawEffect
    \/ LoadEffect
    \/ SaveEffect
    \/ AppResizeEffect
    \/ Render
    \/ OpenModal
    \/ \E f \in Files : HandleFileChange(f)
    \/ \E i \in 1..MaxReaders, ok \in BOOLEAN : ReaderLoadEnd(i, ok)
    \/ Retake
    \/ HandleAnalyze
    \/ \E n \in 1..MaxCards, response \in Responses : HandleAnalyzeResume(n, response)
    \/ HandleClose
    \/ \E i \in 1..MaxCards : SelectFromList(i)
    \/ \E i \in 1..MaxCards : SelectFromMap(i)
    \/ Deselect
    \/ \E tab \in {"list", "map"} : SetMobileTab(tab)
    \/ \E w \in {"narrow", "wide"} : WindowResize(w)

Spec == Init /\ [][Next]_vars

\* ----------------------------------------------------------------- claims

\* C1: if at mount the storage key holds the JSON serialization of a list
\* of records R, then once the mount's effects and the render they trigger
\* have settled (and before any event is handled), the in-memory collection
\* is R, in order, and the stored blob is again the serialization of R.
C1_RoundTrip ==
    \A R \in StoredLists :
        (mountItem = Item(JSONstringify(R)) /\ Idle) =>
            /\ restaurants = Array(R)
            /\ localStorage[STORAGE_KEY] = Item(JSONstringify(R))

\* The mount of a two-record blob has settled.
C1_Witness ==
    /\ Idle
    /\ mountItem = Item(JSONstringify(<<Stored2, Stored1>>))
    /\ restaurants = Array(<<Stored2, Stored1>>)

\* C2: whenever all pending renders and effects have run, the blob under
\* STORAGE_KEY is exactly the JSON serialization of the in-memory
\* collection, whatever records have been saved; and no other key of the
\* storage is ever written.
C2_SaveOnChange ==
    /\ Idle => localStorage[STORAGE_KEY] = Item(JSONstringify(restaurants.value))
    /\ localStorage[OtherKey] = NoItem

\* A record was saved on top of a loaded one and everything has run.
C2_Witness ==
    /\ Idle
    /\ Len(log) = 1
    /\ Len(restaurants.value) = 2
    /\ localStorage[STORAGE_KEY] = Item(JSONstringify(restaurants.value))

\* The collection once the queued setRestaurants calls are rendered.
Collection == ApplyUpdates(restaurants, updates)

\* The answer object a successful response carried.
AnswerOf(response) == CHOOSE a \in Answers : AnswerText(a) = response.text

ModalReset ==
    /\ ~isModalOpen
    /\ file = Null
    /\ preview = Null
    /\ error = Null
    /\ ~isAnalyzing

\* C3: every analysis that succeeded added exactly one record: the
\* collection is the records of the successful analyses, newest first,
\* followed by a list that was loaded; each such record has the name,
\* country, city, district, description, tags and coordinates (lat, lng) of
\* the answer and, as originalImage, the preview shown when Extract Info
\* was pressed; and after the success, while its render and effects run,
\* the modal is closed, file, preview and error are null and isAnalyzing is
\* false.
C3_SuccessfulExtraction ==
    log # <<>> =>
        /\ ~crashed
        /\ LET items == Collection.value
               n     == Len(log)
           IN  /\ \E L \in StoredLists :
                     /\ Len(items) = n + Len(L)
                     /\ SubSeq(items, n + 1, Len(items)) = L
               /\ \A i \in 1..n :
                     LET r == items[n + 1 - i]
                         a == AnswerOf(log[i].response)
                     IN  /\ r.name = a.name
                         /\ r.country = a.country
                         /\ r.city = a.city
                         /\ r.district = a.district
                         /\ r.description = a.description
                         /\ r.tags = a.tags
                         /\ r.coordinates = [lat |-> a.lat, lng |-> a.lng]
                         /\ r.originalImage = log[i].shown
        /\ ~Idle => ModalReset

\* An analysis pressed on one screenshot succeeded after the user had
\* closed the modal and picked another screenshot; its record is on top of
\* two loaded ones.
C3_Witness ==
    /\ updates # <<>>
    /\ Len(log) = 1
    /\ Len(Collection.value) = 3
    /\ Collection.value[1].originalImage = DataUrl("shot1")
    /\ readers = <<"shot2">>
    /\ ModalReset

\* C4: a generateContent request is issued only by a press of Extract Info,
\* one per press, and a request that has settled (answer, empty text,
\* malformed JSON or rejection) is gone: nothing sends it again.
C4_SingleRequest ==
    [][ \/ inflight' = inflight
        \/ \E n \in 1..Len(inflight) : inflight' = RemoveAt(inflight, n)
        \/ /\ ButtonsEnabled
           /\ inflight' = Append(inflight,
                [shown |-> preview,
                 request |-> [data |-> preview.parts[2], sent |-> 1]])
      ]_vars

\* An analysis failed and no request is outstanding.
C4_Witness ==
    /\ error # Null
    /\ inflight = <<>>
    /\ PreviewShown
    /\ ~isAnalyzing

\* The cards of the grouped list, as (country group, city group, position).
Cards(g) ==
    {p \in (1..MaxCards) \X (1..MaxCards) \X (1..MaxCards) :
        /\ p[1] <= Len(g)
        /\ p[2] <= Len(g[p[1]].cities)
        /\ p[3] <= Len(g[p[1]].cities[p[2]].spots)}

CardAt(g, p) == g[p[1]].cities[p[2]].spots[p[3]]

\* What C5 says of the list: each record is on exactly one card, under its
\* own country and city, cards of a group in collection order, and the
\* empty-state block is shown iff the collection is empty.
ListShowsCollection(rs) ==
    LET g == Grouped(rs)
    IN  /\ Cardinality(Cards(g)) = Len(rs)
        /\ \A i \in 1..Len(rs) :
              \E p \in Cards(g) :
                 /\ CardAt(g, p) = rs[i]
                 /\ g[p[1]].country = rs[i].country
                 /\ g[p[1]].cities[p[2]].city = rs[i].city
                 /\ \A q \in Cards(g) : CardAt(g, q) = rs[i] => q = p
        /\ \A p, q \in Cards(g) :
              (p[1] = q[1] /\ p[2] = q[2] /\ p[3] < q[3]) =>
                 \E i, k \in 1..Len(rs) :
                    i < k /\ rs[i] = CardAt(g, p) /\ rs[k] = CardAt(g, q)
        /\ EmptyStateShown(rs) <=> rs = <<>>

\* What C5 says of the map: one pin per record, and no other pin.
PinsShowCollection(rs) ==
    /\ Len(pins) = Len(rs)
    /\ \A i \in 1..Len(rs) : pins[i].datum = rs[i]

\* C5: the grouped list and the pins of the map show exactly the records
\* of the in-memory collection (stated for the states in which every
\* render and effect has run).
C5_ListAndPins ==
    Idle => /\ ListShowsCollection(restaurants.value)
            /\ PinsShowCollection(restaurants.value)

\* The list's half of C5 alone.
C5_ListOnly == Idle => ListShowsCollection(restaurants.value)

\* C6: while and after the app mounts, the stored blob contains every
\* record that was stored before the mount.
C6_MountKeepsStoredRecords ==
    \A R \in StoredLists :
        mountItem = Item(JSONstringify(R)) =>
            LET item == localStorage[STORAGE_KEY]
            IN  /\ item.present
                /\ item.text.kind = "json"
                /\ item.text.doc.j = "array"
                /\ \A i \in 1..Len(R) :
                      \E k \in 1..Len(item.text.doc.elems) :
                         item.text.doc.elems[k] = StringifyRestaurant(R[i])

MountSettled ==
    /\ mountItem # Forgotten
    /\ effects = <<>>
    /\ updates = <<>>
    /\ pendingDimensions = NoDimensions

Unparseable == {NoItem, Item(EmptyText), Item(GarbageText)}

\* C7: whatever the stored blob holds at mount, mounting does not fail and
\* the collection afterwards is a list of records, the empty list when the
\* blob is absent or cannot be parsed.
C7_AnyBlobMounts ==
    /\ ~crashed
    /\ MountSettled =>
         /\ restaurants.type = "array"
         /\ \A i \in 1..Len(restaurants.value) : IsRestaurant(restaurants.value[i])
         /\ mountItem \in Unparseable => restaurants = Array(<<>>)

\* The part of C7 about absent and unparseable blobs alone.
C7_UnparseableOnly ==
    (MountSettled /\ mountItem \in Unparseable) =>
        ~crashed /\ restaurants = Array(<<>>)

\* C8: the step in which an analysis fails adds no record, leaves the
\* stored blob, the selection, the modal's open state and the preview as
\* they were, sets an error and sets isAnalyzing to false, so that the
\* buttons shown with the preview are enabled.
C8_FailedExtraction ==
    [][ (Len(inflight') < Len(inflight) /\ log' = log) =>
            /\ restaurants' = restaurants
            /\ updates' = updates
            /\ localStorage' = localStorage
            /\ selectedRestaurant' = selectedRestaurant
            /\ isModalOpen' = isModalOpen
            /\ preview' = preview
            /\ error' # Null
            /\ ~isAnalyzing'
            /\ PreviewShown' => ButtonsEnabled'
      ]_vars

\* An analysis failed with a record selected: the modal is open on the
\* same preview, with an error and its buttons enabled.
C8_Witness ==
    /\ error # Null
    /\ ButtonsEnabled
    /\ inflight = <<>>
    /\ selectedRestaurant = Stored1
    /\ restaurants = Array(<<Stored2, Stored1>>)

\* C9: whatever makes the analysis fail, analyzeImage fails with the one
\* message, and the modal's error is never any other message.
C9_UniformMessage ==
    /\ \A response \in Responses :
          AnalyzeImage(response).threw =>
              AnalyzeImage(response).message = UniformMessage
    /\ error \in {Null, Str(<<UniformMessage>>)}

\* The modal stores the message of a failed analysis.
C9_Witness == error = Str(<<UniformMessage>>)

\* C10: at most one analysis is outstanding; isAnalyzing is true exactly
\* while one is, and then Extract Info and Retake are disabled.
C10_OneInFlight ==
    /\ Len(inflight) <= 1
    /\ isAnalyzing <=> inflight # <<>>
    /\ inflight # <<>> => ~ButtonsEnabled

\* With an analysis outstanding, the user has closed and reopened the
\* modal and picked another screenshot, which is now previewed.
C10_Witness ==
    /\ Len(inflight) = 1
    /\ PreviewShown
    /\ preview # inflight[1].shown

\* The step adds a record to the collection (handleSaveRestaurant's prepend).
RecordAdded ==
    /\ Len(updates') = Len(updates) + 1
    /\ updates'[Len(updates')].op = "prepend"

\* C11: a record is added to the collection only while the add-place modal
\* is open; and when the header button has closed the modal while an analysis
\* was in flight, the completion of that analysis adds no record, leaves the
\* selection and the mobile tab alone, and neither closes nor resets a modal
\* session opened since.
C11_NoSaveAfterClose ==
    [][ /\ RecordAdded => isModalOpen
        /\ \A n \in 1..Len(inflight) :
             (inflight' = RemoveAt(inflight, n) /\ abandoned[n]) =>
                 /\ ~RecordAdded
                 /\ selectedRestaurant' = selectedRestaurant
                 /\ mobileTab' = mobileTab
                 /\ isModalOpen =>
                      /\ isModalOpen'
                      /\ file' = file
                      /\ preview' = preview
      ]_vars

\* C12: once handleClose has run, file, preview and error are null for as
\* long as the modal stays closed (no file can be picked then), whatever
\* file reads and analyses were pending at the close; the modal therefore
\* opens on the upload prompt, with no preview and no error.
C12_ReopensClean ==
    ~isModalOpen =>
        /\ file = Null
        /\ preview = Null
        /\ error = Null

\* The file's third of C12 alone: only handleFileChange sets the file.
C12_FileOnly == ~isModalOpen => file = Null

====
